---- MODULE Spec2Model ----
(***************************************************************************)
(* Model of src/extract_pdf_data.py (class PDFExtractor).                  *)
(*                                                                         *)
(* A Python str is a sequence of text units.  A unit is one whitespace     *)
(* character (" ", "\n", "\t"), one comma, or a maximal chunk of other     *)
(* characters ("Smith", "J.", "10.1", "References").  Two adjacent chunks  *)
(* read as one run of characters, so a chunk made of word characters next  *)
(* to another such chunk leaves no word boundary between them.             *)
(*                                                                         *)
(* A Python value stored in a record is tagged: PyStr(s), PyInt(n), PyNone.*)
(* A call that may raise returns [raised |-> BOOLEAN, value |-> ...].      *)
(***************************************************************************)
EXTENDS Integers, Sequences, FiniteSets, TLC

VARIABLES
    cleanCall,      \* one call of clean_extracted_info: its arguments and result
    refsCall,       \* one call of extract_references: its argument and result
    fieldsCall,     \* one call of extract_fields: arguments, collaborators, result
    pc,             \* position of run(): "idle", "loop", "save", "done", "aborted"
    save_full_text_enabled,   \* self.save_full_text_enabled
    use_gpt,        \* run(use_gpt_for_references)
    folder,         \* os.listdir(self.folder_path): the files, in listing order
    next_file,      \* index in folder of the file the loop handles next
    data,           \* the list data of process_pdfs_in_folder
    processed,      \* names of the files whose record was appended, in order
    opened,         \* number of fitz.open calls so far
    output_writes,  \* what each open(self.output_file, 'w') left in the file
    side_files,     \* the plain-text side files written so far (name -> text)
    uuids           \* number of uuid4() values drawn so far

vars == <<cleanCall, refsCall, fieldsCall, pc, save_full_text_enabled, use_gpt,
          folder, next_file, data, processed, opened, output_writes, side_files,
          uuids>>

runVars == <<pc, save_full_text_enabled, use_gpt, folder, next_file, data,
             processed, opened, output_writes, side_files, uuids>>

(***************************************************************************)
(* Bounds of the explored inputs.                                          *)
(***************************************************************************)
MaxRawLen == 4      \* longest raw answer given to clean_extracted_info
MaxTextLen == 4     \* longest document text given to extract_references
MaxFaults == 2      \* most collaborator calls of one extract_fields call that deviate
MaxFiles == 2       \* most files in the input folder

(***************************************************************************)
(* Python values and strings.                                              *)
(***************************************************************************)
PyStr(s) == [t |-> "str", s |-> s]
PyInt(n) == [t |-> "int", n |-> n]
PyNone == [t |-> "none"]

Returns(v) == [raised |-> FALSE, value |-> v]
Raises == [raised |-> TRUE, value |-> PyNone]   \* value is never read

\* str.strip() with no argument strips these (the ones the texts here contain).
Whitespace == {" ", "\n", "\t"}

RECURSIVE lstrip(_)
lstrip(s) ==
    IF s = <<>> THEN s
    ELSE IF Head(s) \in Whitespace THEN lstrip(Tail(s)) ELSE s

RECURSIVE rstrip(_)
rstrip(s) ==
    IF s = <<>> THEN s
    ELSE IF s[Len(s)] \in Whitespace THEN rstrip(SubSeq(s, 1, Len(s) - 1)) ELSE s

strip(s) == rstrip(lstrip(s))

\* str.split(sep) for a one-unit separator: a list of Len-many-plus-one pieces.
RECURSIVE split(_, _)
split(s, sep) ==
    IF \A i \in 1..Len(s) : s[i] # sep THEN <<s>>
    ELSE LET i == CHOOSE k \in 1..Len(s) :
                      s[k] = sep /\ \A j \in 1..(k - 1) : s[j] # sep
         IN <<SubSeq(s, 1, i - 1)>> \o split(SubSeq(s, i + 1, Len(s)), sep)

\* sep.join(items)
RECURSIVE join(_, _)
join(sep, items) ==
    IF items = <<>> THEN <<>>
    ELSE IF Len(items) = 1 THEN items[1]
    ELSE items[1] \o sep \o join(sep, Tail(items))

\* [item.strip() for item in info.split(',') if item.strip()]
RECURSIVE strip_nonempty(_)
strip_nonempty(pieces) ==
    IF pieces = <<>> THEN <<>>
    ELSE IF strip(Head(pieces)) # <<>>
         THEN <<strip(Head(pieces))>> \o strip_nonempty(Tail(pieces))
         ELSE strip_nonempty(Tail(pieces))

ListTypes == {"Authors", "Keywords"}
ScalarTypes == {"Title", "Source", "Document Type", "Abstract", "Affiliations",
                "Corresponding Author", "Publication Year", "Volume", "Issue",
                "Start Page", "End Page", "DOI", "Unique Article Identifier"}

\* A plausible slip: the items are joined as split, neither trimmed nor filtered.
clean_extracted_info_untrimmed(info, info_type) ==
    IF info_type \in ListTypes THEN join(<<";", " ">>, split(info, ","))
    ELSE IF info_type \in ScalarTypes THEN strip(info)
    ELSE info

clean_extracted_info(info, info_type) ==
    IF info_type \in ListTypes
    THEN join(<<";", " ">>, strip_nonempty(split(info, ",")))
    ELSE IF info_type \in ScalarTypes THEN strip(info)
    ELSE info

(***************************************************************************)
(* extract_references: the regular expressions, read unit by unit.         *)
(* In a document text every chunk is a run of word characters (letters,    *)
(* digits, "_"; the letter "Â" is one) and every other character is a unit *)
(* of its own.                                                             *)
(***************************************************************************)
NonWordUnits == Whitespace \cup {",", "©", ":", "."}

\* re.IGNORECASE: the case folding of the chunks the patterns can meet.
lower(u) ==
    CASE u \in {"References", "REFERENCES"} -> "references"
      [] u \in {"Bibliography", "BIBLIOGRAPHY"} -> "bibliography"
      [] u \in {"Works", "WORKS"} -> "works"
      [] u \in {"Cited", "CITED"} -> "cited"
      [] u \in {"Literature", "LITERATURE"} -> "literature"
      [] u \in {"Reference", "REFERENCE"} -> "reference"
      [] u \in {"List", "LIST"} -> "list"
      [] u \in {"Appendix", "APPENDIX"} -> "appendix"
      [] u \in {"Appendixes", "APPENDIXES"} -> "appendixes"
      [] u \in {"Acknowledgments", "ACKNOWLEDGMENTS"} -> "acknowledgments"
      [] u \in {"Tables", "TABLES"} -> "tables"
      [] u \in {"Figures", "FIGURES"} -> "figures"
      [] OTHER -> u

\* patterns, lines 123-126: each alternative as folded units
patterns == {<<"references">>, <<"bibliography">>, <<"works", " ", "cited">>,
             <<"literature", " ", "cited">>, <<"reference", " ", "list">>}

\* \b at the edge between s[i-1] and s[i] when s[i] is a chunk (or between s[i]
\* and s[i+1]): the neighbour is missing or is not a word character.
boundary_before(s, i) == i = 1 \/ s[i - 1] \in NonWordUnits
boundary_after(s, i) == i = Len(s) \/ s[i + 1] \in NonWordUnits

\* combined_pattern (line 129) matches at position i of s
combined_pattern_at(s, i) ==
    \E p \in patterns :
        /\ i + Len(p) - 1 <= Len(s)
        /\ \A k \in 1..Len(p) : lower(s[i + k - 1]) = p[k]
        /\ boundary_before(s, i)
        /\ boundary_after(s, i + Len(p) - 1)

\* the position after the run of whitespace units that starts at i (\s*)
RECURSIVE skip_space(_, _)
skip_space(s, i) ==
    IF i <= Len(s) /\ s[i] \in Whitespace THEN skip_space(s, i + 1) ELSE i

\* chunks that begin with Appendix|Acknowledgments|Tables|Figures (no \b follows)
section_chunks == {"appendix", "acknowledgments", "tables", "figures", "appendixes"}

\* chunks that begin with four digits (\d{4})
year_chunks == {"2020", "1999"}

\* end_markers[0], line 141: \n\s*(?:Appendix|Acknowledgments|Tables|Figures)
section_marker_at(s, i) ==
    /\ s[i] = "\n"
    /\ LET j == skip_space(s, i + 1)
       IN j <= Len(s) /\ lower(s[j]) \in section_chunks

\* end_markers[1], line 142: \n\s*Â©\s*\d{4}  (the pattern text is "Â" then "©")
copyright_marker_at(s, i) ==
    /\ s[i] = "\n"
    /\ LET j == skip_space(s, i + 1)
       IN /\ j + 1 <= Len(s)
          /\ s[j] = "Â"
          /\ s[j + 1] = "©"
          /\ LET k == skip_space(s, j + 2)
             IN k <= Len(s) /\ s[k] \in year_chunks

Min(S) == CHOOSE x \in S : \A y \in S : x <= y

\* re.search: the leftmost match start (1-based), or 0 for None
search_combined_pattern(s) ==
    LET hits == {i \in 1..Len(s) : combined_pattern_at(s, i)}
    IN IF hits = {} THEN 0 ELSE Min(hits)

search_section_marker(s) ==
    LET hits == {i \in 1..Len(s) : section_marker_at(s, i)}
    IN IF hits = {} THEN 0 ELSE Min(hits)

search_copyright_marker(s) ==
    LET hits == {i \in 1..Len(s) : copyright_marker_at(s, i)}
    IN IF hits = {} THEN 0 ELSE Min(hits)

REFERENCES_NOT_FOUND == <<"References", " ", "not", " ", "found">>

\* lines 115-152.  end_pos counts the units kept (Python's slice end).
extract_references(text) ==
    LET match == search_combined_pattern(text)
    IN IF match = 0 THEN REFERENCES_NOT_FOUND
       ELSE LET text_from_refs == SubSeq(text, match, Len(text))
                m0 == search_section_marker(text_from_refs)
                m1 == search_copyright_marker(text_from_refs)
                end0 == IF m0 # 0 THEN m0 - 1 ELSE Len(text_from_refs)
                end_pos == IF m1 # 0 /\ m1 - 1 < end0 THEN m1 - 1 ELSE end0
            IN strip(SubSeq(text_from_refs, 1, end_pos))

(***************************************************************************)
(* The collaborators.  What a collaborator does in one call is an input:   *)
(* a completion call is "ok" (answers the text asked for), "empty"         *)
(* (answers ""), "echo" (answers the text Unknown), "none" (a response     *)
(* whose message content is None) or "raise" (transport/service error).    *)
(***************************************************************************)
CompletionOutcomes == {"ok", "empty", "echo", "none", "raise"}

\* The 13 calls of extract_fields, in call order (lines 197-243), by the
\* name each answer is later cleaned under (lines 257-269).
Descriptors == <<"Authors", "Title", "Source", "Document Type", "Keywords",
                 "Abstract", "Affiliations", "Corresponding Author",
                 "Publication Year", "Volume", "Issue", "DOI",
                 "Unique Article Identifier">>

DescriptorSet == {Descriptors[i] : i \in 1..Len(Descriptors)}

\* What a working service answers, before any trimming.
NominalAnswer(what) ==
    CASE what = "Authors" -> <<" ", "Smith", ",", " ", "J.", ",", "Doe", "\n">>
      [] what = "Title" -> <<"A", " ", "Study", "\n">>
      [] what = "Keywords" -> <<"pdf", ",", " ", ",", "nlp">>
      [] what = "Abstract" -> <<"\n", "We", " ", "study", ",", " ", "x">>
      [] what = "DOI" -> <<"\n", "10.1", " ">>
      [] what = "Volume" -> <<>>
      [] what = "References" -> <<" ", "[1]", " ", "Doe", "\n">>
      [] OTHER -> <<what>>

UNKNOWN == <<"Unknown">>
REFERENCES_EXTRACTION_FAILED == <<"References", " ", "extraction", " ", "failed">>

\* self.client.chat.completions.create(...) followed by
\* response.choices[0].message.content: the content, or an exception
chat_completion(what, outcome) ==
    CASE outcome = "raise" -> Raises
      [] outcome = "none" -> Returns(PyNone)
      [] outcome = "empty" -> Returns(PyStr(<<>>))
      [] outcome = "echo" -> Returns(PyStr(<<"Unknown", "\n">>))
      [] OTHER -> Returns(PyStr(NominalAnswer(what)))

\* A plausible slip: the content is returned as received, without .strip().
extract_info_with_gpt_untrimmed(text, info_type, outcome) ==
    LET response == chat_completion(info_type, outcome)
    IN IF response.raised THEN Returns(UNKNOWN)
       ELSE IF response.value.t = "none" THEN Returns(UNKNOWN)
       ELSE Returns(response.value.s)

\* A plausible slip: no try/except around the request.
extract_info_with_gpt_unguarded(text, info_type, outcome) ==
    LET response == chat_completion(info_type, outcome)
    IN IF response.raised \/ response.value.t = "none" THEN Raises
       ELSE Returns(strip(response.value.s))

\* lines 47-75.  None.strip() raises AttributeError inside the try.
extract_info_with_gpt(text, info_type, outcome) ==
    LET response == chat_completion(info_type, outcome)
    IN IF response.raised THEN Returns(UNKNOWN)
       ELSE IF response.value.t = "none" THEN Returns(UNKNOWN)
       ELSE Returns(strip(response.value.s))

\* lines 154-180
extract_references_with_gpt(text, outcome) ==
    LET response == chat_completion("References", outcome)
    IN IF response.raised THEN Returns(REFERENCES_EXTRACTION_FAILED)
       ELSE IF response.value.t = "none" THEN Returns(REFERENCES_EXTRACTION_FAILED)
       ELSE Returns(strip(response.value.s))

(***************************************************************************)
(* The citation index (scholarly).  One lookup is an input too:            *)
(*   "search_raises"  scholarly.search_pubs raises                         *)
(*   "next_raises"    the result iterator raises when advanced             *)
(*   "no_result"      the iterator is empty, next(..., None) is None       *)
(*   "no_count"       the first result has no "num_citations" key          *)
(*   "count"          the first result reports n citations                 *)
(***************************************************************************)
IndexFailures == {"search_raises", "next_raises", "no_result", "no_count"}

\* citation counts a first result may report
IndexCounts == {0, 7}

IndexOutcomes ==
    [kind : IndexFailures, n : {0}] \cup [kind : {"count"}, n : IndexCounts]

\* A plausible slip: only the missing result is handled, exceptions escape.
get_citation_count_unguarded(doi, index) ==
    CASE index.kind \in {"search_raises", "next_raises", "no_count"} -> Raises
      [] index.kind = "no_result" -> Returns(0)
      [] OTHER -> Returns(index.n)

\* lines 96-113
get_citation_count(doi, index) ==
    CASE index.kind = "search_raises" -> Returns(0)    \* except, line 111
      [] index.kind = "next_raises" -> Returns(0)      \* except, line 111
      [] index.kind = "no_result" -> Returns(0)        \* else, line 108
      [] index.kind = "no_count" -> Returns(0)         \* KeyError, line 111
      [] OTHER -> Returns(index.n)                     \* line 107

(***************************************************************************)
(* extract_fields, lines 182-292.  env is what the collaborators do during *)
(* this call: env.uuid (the uuid4 drawn), env.completion (descriptor ->    *)
(* outcome), env.references (outcome of the references request) and        *)
(* env.index (the citation lookup).  The result carries, beside the record,*)
(* the calls made: completion_calls (what was asked, in order), locators   *)
(* (the reference strategies invoked) and index_queries (the strings       *)
(* searched in the citation index).  An exception that escapes a callee    *)
(* ends the call at that point with raised = TRUE.                         *)
(***************************************************************************)
Escaped(completion_calls, locators, index_queries) ==
    [raised |-> TRUE, fields |-> <<>>, completion_calls |-> completion_calls,
     locators |-> locators, index_queries |-> index_queries]

\* A plausible slip: a failed service request falls back to the heuristic.
locate_references_chained(text, use_gpt_for_references, outcome) ==
    IF use_gpt_for_references
    THEN IF outcome \in {"raise", "none"}
         THEN [raised |-> FALSE, value |-> extract_references(text),
               completion_calls |-> <<"References">>,
               locators |-> <<"service", "heuristic">>]
         ELSE [raised |-> FALSE,
               value |-> extract_references_with_gpt(text, outcome).value,
               completion_calls |-> <<"References">>, locators |-> <<"service">>]
    ELSE [raised |-> FALSE, value |-> extract_references(text),
          completion_calls |-> <<>>, locators |-> <<"heuristic">>]

\* lines 248-251
locate_references(text, use_gpt_for_references, outcome) ==
    IF use_gpt_for_references
    THEN LET r == extract_references_with_gpt(text, outcome)
         IN [raised |-> r.raised, value |-> r.value,
             completion_calls |-> <<"References">>, locators |-> <<"service">>]
    ELSE [raised |-> FALSE, value |-> extract_references(text),
          completion_calls |-> <<>>, locators |-> <<"heuristic">>]

extract_fields(text_first, text, num_pages, use_gpt_for_references, env) ==
    LET n == Len(Descriptors)
        \* lines 197-243: the 13 requests, in order
        answers == [i \in 1..n |->
                      extract_info_with_gpt(text_first, Descriptors[i],
                                            env.completion[Descriptors[i]])]
        escaping == {i \in 1..n : answers[i].raised}
        authors == answers[1].value
        title == answers[2].value
        source == answers[3].value
        document_type == answers[4].value
        keywords == answers[5].value
        abstract == answers[6].value
        affiliations == answers[7].value
        corresponding_author == answers[8].value
        publication_year == answers[9].value
        volume == answers[10].value
        issue == answers[11].value
        doi == answers[12].value
        unique_article_id == answers[13].value
        \* lines 248-251
        references == locate_references(text, use_gpt_for_references, env.references)
        asked == Descriptors \o references.completion_calls
        \* line 254: doi as line 235 left it, before line 268 cleans it
        citation_count == get_citation_count(doi, env.index)
    IN IF escaping # {}
       THEN Escaped(SubSeq(Descriptors, 1, Min(escaping)), <<>>, <<>>)
       ELSE IF references.raised
       THEN Escaped(asked, references.locators, <<>>)
       ELSE IF citation_count.raised
       THEN Escaped(asked, references.locators, <<doi>>)
       ELSE [raised |-> FALSE,
             fields |->
               [ID |-> PyStr(<<env.uuid>>),
                AU |-> PyStr(clean_extracted_info(authors, "Authors")),
                TI |-> PyStr(clean_extracted_info(title, "Title")),
                SO |-> PyStr(clean_extracted_info(source, "Source")),
                DT |-> PyStr(clean_extracted_info(document_type, "Document Type")),
                DE |-> PyStr(clean_extracted_info(keywords, "Keywords")),
                AB |-> PyStr(clean_extracted_info(abstract, "Abstract")),
                C1 |-> PyStr(clean_extracted_info(affiliations, "Affiliations")),
                RP |-> PyStr(clean_extracted_info(corresponding_author,
                                                  "Corresponding Author")),
                PY |-> PyStr(clean_extracted_info(publication_year,
                                                  "Publication Year")),
                VL |-> PyStr(clean_extracted_info(volume, "Volume")),
                IS |-> PyStr(clean_extracted_info(issue, "Issue")),
                BP |-> PyInt(1),
                EP |-> PyInt(num_pages),
                DI |-> PyStr(clean_extracted_info(doi, "DOI")),
                UT |-> PyStr(clean_extracted_info(unique_article_id,
                                                  "Unique Article Identifier")),
                TC |-> PyInt(citation_count.value),
                CR |-> PyStr(references.value)],
             completion_calls |-> asked,
             locators |-> references.locators,
             index_queries |-> <<doi>>]

\* The record key each descriptor's answer is stored under (lines 271-289).
KeyOf(what) ==
    CASE what = "Authors" -> "AU"
      [] what = "Title" -> "TI"
      [] what = "Source" -> "SO"
      [] what = "Document Type" -> "DT"
      [] what = "Keywords" -> "DE"
      [] what = "Abstract" -> "AB"
      [] what = "Affiliations" -> "C1"
      [] what = "Corresponding Author" -> "RP"
      [] what = "Publication Year" -> "PY"
      [] what = "Volume" -> "VL"
      [] what = "Issue" -> "IS"
      [] what = "DOI" -> "DI"
      [] what = "Unique Article Identifier" -> "UT"

SchemaKeys == {"ID", "AU", "TI", "SO", "DT", "DE", "AB", "C1", "RP", "PY", "VL",
               "IS", "BP", "EP", "DI", "UT", "TC", "CR"}

(***************************************************************************)
(* Inputs.                                                                 *)
(***************************************************************************)
BoundedSeq(S, n) == UNION {[1..k -> S] : k \in 0..n}

IdleClean == [info |-> <<>>, info_type |-> "", done |-> FALSE, out |-> <<>>]
IdleRefs == [text |-> <<>>, done |-> FALSE, out |-> <<>>]
IdleFields == [done |-> FALSE]

IdleRun ==
    /\ pc = "idle"
    /\ save_full_text_enabled = FALSE
    /\ use_gpt = FALSE
    /\ folder = <<>>
    /\ next_file = 1
    /\ data = <<>>
    /\ processed = <<>>
    /\ opened = 0
    /\ output_writes = <<>>
    /\ side_files = <<>>
    /\ uuids = 0

(***************************************************************************)
(* clean_extracted_info called on its own.                                 *)
(***************************************************************************)
RawUnits == {"a", "b", ",", " ", "\n", ";"}

\* "Smith, J., Doe, A."
SmithExample == <<"Smith", ",", " ", "J.", ",", " ", "Doe", ",", " ", "A.">>

RawInputs == BoundedSeq(RawUnits, MaxRawLen) \cup {SmithExample}

\* the list-like types, one scalar type and one the function does not know
CleanTypes == {"Authors", "Keywords", "Title", "Pages"}

InitClean ==
    /\ cleanCall \in [info : RawInputs, info_type : CleanTypes,
                      done : {FALSE}, out : {<<>>}]
    /\ refsCall = IdleRefs
    /\ fieldsCall = IdleFields
    /\ IdleRun

CallClean ==
    /\ ~cleanCall.done
    /\ cleanCall' = [cleanCall EXCEPT
                       !.done = TRUE,
                       !.out = clean_extracted_info(cleanCall.info,
                                                    cleanCall.info_type)]
    /\ UNCHANGED <<refsCall, fieldsCall, runVars>>

NextClean == CallClean

SpecClean == InitClean /\ [][NextClean]_vars

(***************************************************************************)
(* extract_references called on its own.                                   *)
(***************************************************************************)
RefUnits == {"References", "REFERENCES", "x", " ", "\n", "Appendix", "©", "Â",
             "2020"}

InitRefs ==
    /\ refsCall \in [text : BoundedSeq(RefUnits, MaxTextLen),
                     done : {FALSE}, out : {<<>>}]
    /\ cleanCall = IdleClean
    /\ fieldsCall = IdleFields
    /\ IdleRun

CallRefs ==
    /\ ~refsCall.done
    /\ refsCall' = [refsCall EXCEPT !.done = TRUE,
                                    !.out = extract_references(refsCall.text)]
    /\ UNCHANGED <<cleanCall, fieldsCall, runVars>>

NextRefs == CallRefs

SpecRefs == InitRefs /\ [][NextRefs]_vars

(***************************************************************************)
(* The documents.  A PDF is its pages, each a text.                        *)
(***************************************************************************)
\* two pages, six lines, a references section followed by an appendix
PaperPages == << <<"A", " ", "Study", "\n", "Smith", "\n">>,
                 <<"References", "\n", "[1]", " ", "Doe", "\n", "Appendix", "\n",
                   "x">> >>

\* one page, one line, no references header
NotePages == << <<"A", " ", "note">> >>

Files ==
    { [name |-> <<"paper", ".pdf">>, readable |-> TRUE, pages |-> PaperPages],
      [name |-> <<"note", ".pdf">>, readable |-> TRUE, pages |-> NotePages],
      [name |-> <<"torn", ".pdf">>, readable |-> FALSE, pages |-> <<>>],
      [name |-> <<"readme", ".txt">>, readable |-> TRUE, pages |-> <<>>] }

\* filename.endswith('.pdf'), line 303
endswith_pdf(name) == name # <<>> /\ name[Len(name)] = ".pdf"

RECURSIVE concat(_)
concat(pages) == IF pages = <<>> THEN <<>> ELSE Head(pages) \o concat(Tail(pages))

\* lines 30-45: fitz.open raises on a file it cannot read
extract_text_from_pdf(file, mode) ==
    IF ~file.readable THEN Raises
    ELSE IF mode = "first" /\ Len(file.pages) > 0 THEN Returns(file.pages[1])
    ELSE IF mode = "all" THEN Returns(concat(file.pages))
    ELSE Returns(<<>>)

\* len(full_text.split('\n')), line 308
line_count(full_text) == Len(split(full_text, "\n"))

(***************************************************************************)
(* extract_fields called on its own, with every behaviour of the           *)
(* collaborators in which at most MaxFaults calls deviate (a completion    *)
(* call that is not "ok", an index lookup that reports no count), and with *)
(* every set of failing field requests while the other calls are nominal.  *)
(***************************************************************************)
Deviations == CompletionOutcomes \ {"ok"}

Faults(env) ==
    Cardinality({d \in DescriptorSet : env.completion[d] # "ok"})
    + (IF env.references # "ok" THEN 1 ELSE 0)
    + (IF env.index.kind # "count" THEN 1 ELSE 0)

\* the arguments: (text_first, text, num_pages, use_gpt_for_references)
FieldArgs ==
    { [text_first |-> PaperPages[1], text |-> concat(PaperPages), num_pages |-> 2,
       use_gpt_for_references |-> FALSE],
      [text_first |-> PaperPages[1], text |-> concat(PaperPages), num_pages |-> 2,
       use_gpt_for_references |-> TRUE],
      [text_first |-> NotePages[1], text |-> concat(NotePages), num_pages |-> 1,
       use_gpt_for_references |-> FALSE] }

FewDeviating == {S \in SUBSET DescriptorSet : Cardinality(S) <= MaxFaults}

InitFieldsBounded ==
    \E a \in FieldArgs, S \in FewDeviating, index \in IndexOutcomes :
      \E dev \in [S -> Deviations],
         r \in (IF a.use_gpt_for_references THEN CompletionOutcomes ELSE {"ok"}) :
        LET env == [uuid |-> "uuid-1",
                    completion |-> [d \in DescriptorSet |->
                                      IF d \in S THEN dev[d] ELSE "ok"],
                    references |-> r,
                    index |-> index]
        IN /\ Faults(env) <= MaxFaults
           /\ fieldsCall = [args |-> a, env |-> env, done |-> FALSE]

InitFieldsOutage ==
    \E a \in FieldArgs, F \in SUBSET DescriptorSet :
        fieldsCall = [args |-> a,
                      env |-> [uuid |-> "uuid-1",
                               completion |-> [d \in DescriptorSet |->
                                                 IF d \in F THEN "raise" ELSE "ok"],
                               references |-> "ok",
                               index |-> [kind |-> "count", n |-> 7]],
                      done |-> FALSE]

InitFields ==
    /\ InitFieldsBounded \/ InitFieldsOutage
    /\ cleanCall = IdleClean
    /\ refsCall = IdleRefs
    /\ IdleRun

CallFields ==
    /\ ~fieldsCall.done
    /\ fieldsCall' =
         [args |-> fieldsCall.args, env |-> fieldsCall.env, done |-> TRUE,
          result |-> extract_fields(fieldsCall.args.text_first,
                                    fieldsCall.args.text,
                                    fieldsCall.args.num_pages,
                                    fieldsCall.args.use_gpt_for_references,
                                    fieldsCall.env)]
    /\ UNCHANGED <<cleanCall, refsCall, runVars>>

NextFields == CallFields

SpecFields == InitFields /\ [][NextFields]_vars

(***************************************************************************)
(* run(), lines 323-331: process_pdfs_in_folder then save_to_json.         *)
(* One step is the start of run (the constructor has stored the flag and   *)
(* os.listdir has listed the folder), one pass of the loop body (lines     *)
(* 303-310), or save_to_json.  An exception nothing catches ends the run   *)
(* ("aborted").                                                            *)
(***************************************************************************)
\* os.listdir: distinct files in some order
Folders ==
    {f \in BoundedSeq(Files, MaxFiles) :
        \A i, j \in 1..Len(f) : i # j => f[i] # f[j]}

\* what the collaborators do while one file of a run is handled
RunEnvs(uuid) ==
    LET env(c, r, i) == [uuid |-> uuid,
                         completion |-> [d \in DescriptorSet |-> c[d]],
                         references |-> r, index |-> i]
        all(o) == [d \in DescriptorSet |-> o]
    IN { env(all("ok"), "ok", [kind |-> "count", n |-> 7]),
         env([all("ok") EXCEPT !["DOI"] = "raise"], "ok",
             [kind |-> "no_result", n |-> 0]),
         env(all("raise"), "raise", [kind |-> "search_raises", n |-> 0]) }

\* str(uuid.uuid4()), line 194: the k-th value drawn in a run
uuid4(k) ==
    CASE k = 1 -> "uuid-1" [] k = 2 -> "uuid-2" [] k = 3 -> "uuid-3"
      [] OTHER -> "uuid-4"

Init ==
    /\ pc = "idle"
    /\ save_full_text_enabled \in BOOLEAN
    /\ use_gpt \in BOOLEAN
    /\ folder \in Folders
    /\ next_file = 1
    /\ data = <<>>
    /\ processed = <<>>
    /\ opened = 0
    /\ output_writes = <<>>
    /\ side_files = <<>>
    /\ uuids = 0
    /\ cleanCall = IdleClean
    /\ refsCall = IdleRefs
    /\ fieldsCall = IdleFields

\* line 329 enters process_pdfs_in_folder: data = [], the listing is taken;
\* os.listdir raises when the folder is missing
Start ==
    /\ pc = "idle"
    /\ \E listed \in BOOLEAN : pc' = IF listed THEN "loop" ELSE "aborted"
    /\ UNCHANGED <<cleanCall, refsCall, fieldsCall, save_full_text_enabled, use_gpt,
                   folder, next_file, data, processed, opened, output_writes,
                   side_files, uuids>>

\* A plausible slip: the batch is written out after every document.
ProcessFile_checkpointing ==
    /\ pc = "loop"
    /\ next_file <= Len(folder)
    /\ LET file == folder[next_file]
           text_first == extract_text_from_pdf(file, "first")
           full_text == extract_text_from_pdf(file, "all")
       IN IF ~endswith_pdf(file.name)
          THEN /\ next_file' = next_file + 1
               /\ UNCHANGED <<pc, data, processed, opened, uuids, output_writes>>
          ELSE IF text_first.raised
          THEN /\ pc' = "aborted"
               /\ opened' = opened + 1
               /\ UNCHANGED <<next_file, data, processed, uuids, output_writes>>
          ELSE \E env \in RunEnvs(uuid4(uuids + 1)) :
                 LET r == extract_fields(text_first.value, full_text.value,
                                         line_count(full_text.value), use_gpt, env)
                 IN /\ data' = Append(data, r.fields)
                    /\ output_writes' = Append(output_writes,
                                                [complete |-> TRUE,
                                                 records |-> data'])
                    /\ processed' = Append(processed, file.name)
                    /\ opened' = opened + 2
                    /\ uuids' = uuids + 1
                    /\ next_file' = next_file + 1
                    /\ UNCHANGED pc
    /\ UNCHANGED <<cleanCall, refsCall, fieldsCall, save_full_text_enabled, use_gpt,
                   folder, side_files>>

\* lines 302-310, one file of the listing.  self.save_full_text_enabled is
\* read nowhere, so no side file is written.
ProcessFile ==
    /\ pc = "loop"
    /\ next_file <= Len(folder)
    /\ LET file == folder[next_file]
           text_first == extract_text_from_pdf(file, "first")
           full_text == extract_text_from_pdf(file, "all")
       IN IF ~endswith_pdf(file.name)
          THEN /\ next_file' = next_file + 1
               /\ UNCHANGED <<pc, data, processed, opened, uuids>>
          ELSE IF text_first.raised
          THEN /\ pc' = "aborted"
               /\ opened' = opened + 1
               /\ UNCHANGED <<next_file, data, processed, uuids>>
          ELSE IF full_text.raised
          THEN /\ pc' = "aborted"
               /\ opened' = opened + 2
               /\ UNCHANGED <<next_file, data, processed, uuids>>
          ELSE \E env \in RunEnvs(uuid4(uuids + 1)) :
                 LET r == extract_fields(text_first.value, full_text.value,
                                         line_count(full_text.value), use_gpt, env)
                 IN IF r.raised
                    THEN /\ pc' = "aborted"
                         /\ opened' = opened + 2
                         /\ uuids' = uuids + 1
                         /\ UNCHANGED <<next_file, data, processed>>
                    ELSE /\ data' = Append(data, r.fields)
                         /\ processed' = Append(processed, file.name)
                         /\ opened' = opened + 2
                         /\ uuids' = uuids + 1
                         /\ next_file' = next_file + 1
                         /\ UNCHANGED pc
    /\ UNCHANGED <<cleanCall, refsCall, fieldsCall, save_full_text_enabled, use_gpt,
                   folder, output_writes, side_files>>

\* lines 311 and 313-321, 330-331: the loop is over, data is returned and
\* saved.  os.makedirs or open may raise (no permission, no directory part in
\* output_file) before anything is written; json.dump may raise after open
\* has truncated the file (a text json cannot encode, a full disk), leaving
\* part of the list; otherwise the whole list is written.
SaveOutcomes == {"saved", "not_opened", "dump_raises"}

save_to_json ==
    /\ pc = "loop"
    /\ next_file > Len(folder)
    /\ \E outcome \in SaveOutcomes :
         CASE outcome = "saved" ->
                /\ output_writes' = Append(output_writes,
                                           [complete |-> TRUE, records |-> data])
                /\ pc' = "done"
           [] outcome = "dump_raises" ->
                /\ output_writes' = Append(output_writes,
                                           [complete |-> FALSE, records |-> <<>>])
                /\ pc' = "aborted"
           [] OTHER ->
                /\ pc' = "aborted"
                /\ UNCHANGED output_writes
    /\ UNCHANGED <<cleanCall, refsCall, fieldsCall, save_full_text_enabled, use_gpt,
                   folder, next_file, data, processed, opened, side_files, uuids>>

Next == Start \/ ProcessFile \/ save_to_json

Spec == Init /\ [][Next]_vars

(***************************************************************************)
(* Properties of extract_fields (SpecFields).                              *)
(***************************************************************************)
Result == fieldsCall.result
Env == fieldsCall.env
Args == fieldsCall.args

\* the field requests that fail: the request raises, or its response has
\* no content to trim
FailedRequests == {d \in DescriptorSet : Env.completion[d] \in {"raise", "none"}}

\* the same call in a run where the requests of FailedRequests do not fail
NoFailureRun ==
    LET failed == FailedRequests
    IN extract_fields(Args.text_first, Args.text, Args.num_pages,
                      Args.use_gpt_for_references,
                      [Env EXCEPT !.completion =
                         [d \in DescriptorSet |->
                            IF d \in failed THEN "ok" ELSE Env.completion[d]]])

\* C1: whatever the 13 field requests, the reference locator and the citation
\* lookup do, extract_fields returns (no exception escapes) a record with
\* exactly the 18 schema keys, none of them holding None.
C1_RecordComplete ==
    fieldsCall.done =>
        /\ ~Result.raised
        /\ DOMAIN Result.fields = SchemaKeys
        /\ \A k \in SchemaKeys : Result.fields[k].t \in {"str", "int"}

C1_Witness ==
    /\ fieldsCall.done
    /\ \E d \in DescriptorSet : Env.completion[d] = "raise"
    /\ Env.index.kind = "next_raises"
    /\ DOMAIN Result.fields = SchemaKeys

\* C2 as stated: all 13 requests are issued, "Unknown" sits in exactly the
\* slots of the failed requests, and every other slot holds what it would hold
\* had no request failed.
C2_UnknownExactlyInFailedSlots ==
    fieldsCall.done =>
        /\ ~Result.raised
        /\ SubSeq(Result.completion_calls, 1, Len(Descriptors)) = Descriptors
        /\ LET failed == FailedRequests
               got == Result.fields
               expected == NoFailureRun.fields
           IN /\ \A d \in DescriptorSet :
                   (got[KeyOf(d)] = PyStr(UNKNOWN)) <=> (d \in failed)
              /\ \A d \in DescriptorSet \ failed :
                   got[KeyOf(d)] = expected[KeyOf(d)]

\* C2 amended: all 13 requests are issued, every slot of a failed request
\* holds "Unknown", and every other slot holds what it would hold had no
\* request failed (which is "Unknown" too when the service answers that text).
C2_FaultIsolation ==
    fieldsCall.done =>
        /\ ~Result.raised
        /\ SubSeq(Result.completion_calls, 1, Len(Descriptors)) = Descriptors
        /\ LET failed == FailedRequests
               got == Result.fields
               expected == NoFailureRun.fields
           IN /\ \A d \in failed : got[KeyOf(d)] = PyStr(UNKNOWN)
              /\ \A d \in DescriptorSet \ failed :
                   got[KeyOf(d)] = expected[KeyOf(d)]

C2_Witness ==
    /\ fieldsCall.done
    /\ Cardinality(FailedRequests) >= 3
    /\ "Authors" \in FailedRequests
    /\ "Keywords" \notin FailedRequests
    /\ Result.fields.AU = PyStr(UNKNOWN)
    /\ Result.fields.DE = PyStr(<<"pdf", ";", " ", "nlp">>)

\* C5: get_citation_count never raises; it yields 0 when the search raises,
\* the iterator raises, there is no result or the result has no count, and
\* otherwise the count the first result reports, a non-negative integer.
C5_CitationCount ==
    fieldsCall.done =>
        /\ ~Result.raised
        /\ Result.fields.TC.t = "int"
        /\ Result.fields.TC.n >= 0
        /\ (Env.index.kind \in IndexFailures => Result.fields.TC.n = 0)
        /\ (Env.index.kind = "count" => Result.fields.TC.n = Env.index.n)

C5_Witness ==
    /\ fieldsCall.done
    /\ Env.index.kind = "no_count"
    /\ Result.fields.TC = PyInt(0)

\* C9: the string searched in the citation index is the value stored under
\* DI, whatever the service answered to the DOI request.
C9_LookupUsesNormalizedDoi ==
    fieldsCall.done =>
        /\ ~Result.raised
        /\ Result.index_queries = <<Result.fields.DI.s>>

C9_Witness ==
    /\ fieldsCall.done
    /\ Env.completion["DOI"] = "ok"
    /\ NominalAnswer("DOI") # strip(NominalAnswer("DOI"))
    /\ Result.index_queries = <<(<<"10.1">>)>>

\* C10: exactly one reference strategy runs, the one the flag selects, and CR
\* holds its result; the heuristic mode asks the service nothing about
\* references, and a failed service request gives "References extraction
\* failed" without the heuristic being run.
C10_NoEscalation ==
    fieldsCall.done =>
        /\ ~Result.raised
        /\ Len(Result.locators) = 1
        /\ IF Args.use_gpt_for_references
           THEN /\ Result.locators[1] = "service"
                /\ Result.fields.CR =
                     PyStr(extract_references_with_gpt(Args.text,
                                                       Env.references).value)
                /\ (Env.references = "raise" =>
                      Result.fields.CR = PyStr(REFERENCES_EXTRACTION_FAILED))
           ELSE /\ Result.locators[1] = "heuristic"
                /\ Result.fields.CR = PyStr(extract_references(Args.text))
                /\ Result.completion_calls = Descriptors

C10_Witness ==
    /\ fieldsCall.done
    /\ Args.use_gpt_for_references
    /\ Env.references = "raise"
    /\ Result.locators = <<"service">>
    /\ Result.fields.CR = PyStr(REFERENCES_EXTRACTION_FAILED)

(***************************************************************************)
(* Properties of extract_references (SpecRefs).                            *)
(***************************************************************************)
HeaderKeywords == {<<"references">>, <<"bibliography">>, <<"works", " ", "cited">>,
                   <<"literature", " ", "cited">>, <<"reference", " ", "list">>}

\* a header keyword stands at position i of s as whole words, in any case
HeaderAt(s, i) ==
    \E kw \in HeaderKeywords :
        LET last == i + Len(kw) - 1
        IN /\ last <= Len(s)
           /\ \A k \in 1..Len(kw) : lower(s[i + k - 1]) = kw[k]
           /\ (i > 1 => s[i - 1] \in NonWordUnits)
           /\ (last < Len(s) => s[last + 1] \in NonWordUnits)

\* position i of s is the line break before a trailing-section marker: the
\* next line begins, after optional blanks, with an Appendix, Acknowledgments,
\* Tables or Figures header or with a copyright sign and a year
TrailingMarkerAt(s, i) ==
    /\ s[i] = "\n"
    /\ LET j == skip_space(s, i + 1)
       IN /\ j <= Len(s)
          /\ \/ lower(s[j]) \in section_chunks
             \/ /\ s[j] = "©"
                /\ LET k == skip_space(s, j + 1)
                   IN k <= Len(s) /\ s[k] \in year_chunks

ExpectedReferences(text) ==
    LET headers == {i \in 1..Len(text) : HeaderAt(text, i)}
    IN IF headers = {} THEN REFERENCES_NOT_FOUND
       ELSE LET start == Min(headers)
                markers == {j \in start..Len(text) : TrailingMarkerAt(text, j)}
                stop == IF markers = {} THEN Len(text) + 1 ELSE Min(markers)
            IN strip(SubSeq(text, start, stop - 1))

\* C3: the result is "References not found" when no header keyword occurs,
\* and otherwise the trimmed span from the first header match up to the
\* earliest trailing-section marker (section header or copyright-year notice)
\* inside it, or to the end of the text.
C3_ReferencesSpan ==
    refsCall.done => refsCall.out = ExpectedReferences(refsCall.text)

(***************************************************************************)
(* Properties of clean_extracted_info (SpecClean).                         *)
(***************************************************************************)
\* position of the k-th comma of s; 0 for k = 0, Len(s) + 1 past the last one
CommaPosition(s, k) ==
    LET commas == {i \in 1..Len(s) : s[i] = ","}
    IN IF k = 0 THEN 0
       ELSE IF k > Cardinality(commas) THEN Len(s) + 1
       ELSE CHOOSE i \in commas : Cardinality({j \in commas : j <= i}) = k

\* the k-th comma-separated element of s (k from 0), trimmed
TrimmedElement(s, k) ==
    LET piece == SubSeq(s, CommaPosition(s, k) + 1, CommaPosition(s, k + 1) - 1)
        solid == {i \in 1..Len(piece) : piece[i] \notin Whitespace}
    IN IF solid = {} THEN <<>>
       ELSE SubSeq(piece, Min(solid), CHOOSE i \in solid : \A j \in solid : j <= i)

\* the elements kept, in input order
RECURSIVE KeptElements(_, _)
KeptElements(s, k) ==
    IF k > Cardinality({i \in 1..Len(s) : s[i] = ","}) THEN <<>>
    ELSE (IF TrimmedElement(s, k) = <<>> THEN <<>> ELSE <<TrimmedElement(s, k)>>)
         \o KeptElements(s, k + 1)

\* the elements written one after the other, "; " before all but the first
RECURSIVE SemicolonList(_)
SemicolonList(elements) ==
    IF elements = <<>> THEN <<>>
    ELSE IF Len(elements) = 1 THEN elements[1]
    ELSE SemicolonList(SubSeq(elements, 1, Len(elements) - 1))
         \o <<";", " ">> \o elements[Len(elements)]

\* C4: for Authors and Keywords the result is the comma-separated elements of
\* the input, each trimmed, the empty ones dropped, in input order, joined by
\* "; "; it holds no comma, and no element is empty or starts or ends with
\* whitespace.  "Smith, J., Doe, A." gives "Smith; J.; Doe; A.".
C4_ListNormalization ==
    (cleanCall.done /\ cleanCall.info_type \in ListTypes) =>
        LET kept == KeptElements(cleanCall.info, 0)
        IN /\ cleanCall.out = SemicolonList(kept)
           /\ \A i \in 1..Len(cleanCall.out) : cleanCall.out[i] # ","
           /\ \A k \in 1..Len(kept) :
                /\ kept[k] # <<>>
                /\ kept[k][1] \notin Whitespace
                /\ kept[k][Len(kept[k])] \notin Whitespace
           /\ (cleanCall.info = SmithExample =>
                 cleanCall.out = <<"Smith", ";", " ", "J.", ";", " ", "Doe", ";",
                                   " ", "A.">>)

C4_Witness ==
    /\ cleanCall.done
    /\ cleanCall.info_type = "Authors"
    /\ cleanCall.info = SmithExample
    /\ cleanCall.out = <<"Smith", ";", " ", "J.", ";", " ", "Doe", ";", " ", "A.">>

(***************************************************************************)
(* Properties of run() (Spec).                                             *)
(***************************************************************************)
FileNamed(name) == CHOOSE f \in Files : f.name = name

\* the names of the candidate documents of the folder, in listing order
Candidates == SelectSeq(folder, LAMBDA f : endswith_pdf(f.name))

\* C6: every record has start page 1 and end page equal to the page count of
\* its document.
C6_EndPageIsPageCount ==
    \A i \in 1..Len(data) :
        /\ data[i].BP = PyInt(1)
        /\ data[i].EP = PyInt(Len(FileNamed(processed[i]).pages))

\* C7: the output is written at most once and only once every candidate has
\* been extracted and assembled; a completed run has written it exactly once,
\* one record per processed document in processing order; a run aborted
\* before the last file was handled has written nothing, whatever it had
\* assembled.
C7_OutputWrittenOnceAtEnd ==
    /\ Len(output_writes) <= 1
    /\ (output_writes # <<>> =>
          /\ pc \in {"done", "aborted"}
          /\ next_file > Len(folder)
          /\ Len(processed) = Len(Candidates)
          /\ Len(data) = Len(Candidates))
    /\ (pc = "done" =>
          /\ Len(output_writes) = 1
          /\ output_writes[1] = [complete |-> TRUE, records |-> data]
          /\ Len(data) = Len(processed)
          /\ \A i \in 1..Len(processed) :
               /\ processed[i] = Candidates[i].name
               /\ data[i].ID = PyStr(<<uuid4(i)>>)
               /\ data[i].EP =
                    PyInt(line_count(concat(FileNamed(processed[i]).pages))))
    /\ (pc = "aborted" /\ next_file <= Len(folder) => output_writes = <<>>)

C7_Witness ==
    /\ pc = "aborted"
    /\ Len(data) = 1
    /\ next_file = 2
    /\ Len(folder) = 2
    /\ output_writes = <<>>

\* C8: with save_full_text enabled a completed run has written one side file
\* per processed document, named after it and holding its full text; with the
\* option disabled it has written none.
C8_SideFiles ==
    pc = "done" =>
        IF save_full_text_enabled
        THEN side_files =
               [i \in 1..Len(processed) |->
                  [name |-> processed[i],
                   text |-> concat(FileNamed(processed[i]).pages)]]
        ELSE side_files = <<>>

====
